---------------------------- MODULE Spec2Model ----------------------------
(***************************************************************************)
(* A model of cargo's ProcessBuilder (src/cargo/util/process_builder.rs):  *)
(*                                                                         *)
(*   - the builder (program, args, env overlay, cwd, jobserver, display    *)
(*     flag), its mutators, get_env and build_command;                     *)
(*   - exec_with_streaming: spawn, the read2b loop with the per-chunk      *)
(*     closure (split at the last newline, capture, lossy decode, lines(), *)
(*     callbacks, drain), wait, and the composition of the result.         *)
(*                                                                         *)
(* Values of Option<T> are sequences: None is <<>> and Some(x) is <<x>>.   *)
(* Byte strings and texts are sequences of one-symbol strings.             *)
(***************************************************************************)
EXTENDS Integers, Sequences, FiniteSets, TLC

\* ------------------------------------------------------------------ bounds

\* The child writes at most MaxBytes bytes over its two output streams.
MaxBytes == 3
\* The capacity, in bytes, of each of the two pipes between child and parent.
PipeCap == 2
\* A builder receives at most MaxOps calls.
MaxOps == 3

\* ------------------------------------------------------------- Option<T>

None == <<>>
Some(x) == <<x>>
IsSome(o) == o # <<>>
Unwrap(o) == o[1]

\* ------------------------------------------------------------ bytes, text

\* b'\n', b'\r', an ASCII letter, and a byte that is not valid UTF-8 (0xFF).
LF == "\\n"
CR == "\\r"
BAD == "0xFF"
Bytes == {"a", LF, CR, BAD}

\* U+FFFD REPLACEMENT CHARACTER, and its UTF-8 encoding.
REPL == "U+FFFD"
ReplUtf8 == <<"0xEF", "0xBF", "0xBD">>

SeqsUpTo(S, n) == UNION {[1..k -> S] : k \in 0..n}

\* String::from_utf8_lossy: every invalid byte becomes U+FFFD.
from_utf8_lossy(bytes) ==
    [i \in 1..Len(bytes) |-> IF bytes[i] = BAD THEN REPL ELSE bytes[i]]

\* The position (1-based) of the first "\n" of text, 0 when there is none.
FirstLF(text) ==
    IF \E i \in 1..Len(text) : text[i] = LF
    THEN CHOOSE i \in 1..Len(text) :
            text[i] = LF /\ \A j \in 1..(i - 1) : text[j] # LF
    ELSE 0

\* A line that was ended by "\n" loses one "\r" before it ("\r\n").
StripCR(line) ==
    IF Len(line) > 0 /\ line[Len(line)] = CR
    THEN SubSeq(line, 1, Len(line) - 1)
    ELSE line

\* The characters of a text decoded from Bytes.
Chars == (Bytes \ {BAD}) \cup {REPL}

\* str::lines(): the text split at "\n" or "\r\n", terminators left out; a
\* last line without terminator is a line when it is not empty.
linesOf[text \in Seq(Chars)] ==
    IF text = <<>> THEN <<>>
    ELSE LET i == FirstLF(text)
         IN  IF i = 0 THEN <<text>>
             ELSE <<StripCR(SubSeq(text, 1, i - 1))>>
                    \o linesOf[SubSeq(text, i + 1, Len(text))]
lines(text) == linesOf[text]

\* data.iter().rposition(|b| *b == b'\n'), as an Option of the 0-based index.
rposition_newline(data) ==
    IF \E i \in 1..Len(data) : data[i] = LF
    THEN Some((CHOOSE i \in 1..Len(data) :
                 data[i] = LF /\ \A j \in (i + 1)..Len(data) : data[j] # LF) - 1)
    ELSE None

\* ------------------------------------------------------------------ state

VARIABLES
    \* struct ProcessBuilder
    program,          \* the program to execute
    args,             \* the arguments, in order
    env,              \* the overlay: a map from name to Option of value
    cwd,              \* Option: the directory to run the program from
    jobserver,        \* Option: the jobserver client
    display_env_vars, \* whether Display shows the environment
    \* the builder's surroundings
    ambient,          \* the environment of the calling process
    ops,              \* the calls the builder received, in order
    platform,         \* "unix" or "windows": which cfg the build has
    \* the execution
    mode,             \* the entry point called: "exec", "exec_with_output",
                      \* "exec_with_streaming", "exec_replace"; "none"
                      \* while the builder is being set up
    handler,          \* whether the Ctrl-C handler is installed
    \* exec_with_streaming: the arguments and the child
    capture_output,   \* the capture_output argument
    src_out,          \* what the child writes to its stdout, in all
    src_err,          \* what the child writes to its stderr, in all
    exit_code,        \* Option: the code the child exited with
    child,            \* "none", "running", "closed" (its pipe ends),
                      \* "exited" (not waited for), "reaped"
    w_out, w_err,     \* how many bytes of src_out, src_err are written
    pipe_out,         \* the bytes in the stdout pipe
    pipe_err,         \* the bytes in the stderr pipe
    \* read2b's state
    data_out,         \* the buffer read2b hands the closure for stdout
    data_err,         \* the buffer read2b hands the closure for stderr
    eof_out, eof_err, \* end of stream was handed to the closure
    \* exec_with_streaming's locals
    pc,               \* "start", "reading", "waiting", "compose", "done"
    stdout, stderr,   \* the capture buffers
    callback_error,   \* Option: the first callback error
    calls,            \* every callback invocation, in order
    status,           \* Option: the closure's io::Result<ExitStatus>
    outcome           \* Option: what exec_with_streaming returned

svars == <<platform, mode, handler, capture_output, src_out, src_err,
           exit_code, child, w_out, w_err,
           pipe_out, pipe_err, data_out, data_err, eof_out, eof_err, pc,
           stdout, stderr, callback_error, calls, status, outcome>>

bvars == <<program, args, env, cwd, jobserver, display_env_vars, ambient, ops>>

vars == <<bvars, svars>>

\* The exit codes of the model's children; ExitStatus::success() is code 0.
ExitCodes == {0, 7}
success(code) == code = 0

\* io::Result<ExitStatus>
IoOk(code) == [ok |-> TRUE, code |-> code, err |-> ""]
IoErr(what) == [ok |-> FALSE, code |-> -1, err |-> what]

\* --------------------------------------------------------- the builder

\* The names and values of the model's environment variables, the
\* arguments, the batches args and args_replace are called with, and the
\* programs.
EnvKeys == {"X", "CARGO_MAKEFLAGS"}
EnvVals == {"1", "2"}
AmbientVal == "inherited"
ArgVals == {"a", "b"}
Batches == {<<>>, <<"b">>, <<"a", "b">>}
Programs == {"rustc", "cc"}
Dir == "/d"
Client == "client"
Platforms == {"unix", "windows"}

\* BTreeMap: get and insert.
MapGet(m, k) == IF k \in DOMAIN m THEN Some(m[k]) ELSE None
MapInsert(m, k, v) ==
    [x \in DOMAIN m \cup {k} |-> IF x = k THEN v ELSE m[x]]
EmptyMap == [x \in {} |-> None]

\* env::var_os(var)
var_os(var) == ambient[var]

\* pub fn process(cmd): the builder after construction.
InitBuilder ==
    /\ program = "rustc"
    /\ args = <<>>
    /\ cwd = None
    /\ env = EmptyMap
    /\ jobserver = None
    /\ display_env_vars = FALSE
    /\ ops = <<>>

Call(name, key, val) == [op |-> name, key |-> key, val |-> val]

Logged(call) ==
    /\ Len(ops) < MaxOps
    /\ ops' = Append(ops, call)
    /\ UNCHANGED <<ambient, svars>>

Program(p) ==
    /\ program' = p
    /\ Logged(Call("program", "", <<p>>))
    /\ UNCHANGED <<args, env, cwd, jobserver, display_env_vars>>

\* self.args.push(arg)
Arg(a) ==
    /\ args' = Append(args, a)
    /\ Logged(Call("arg", "", <<a>>))
    /\ UNCHANGED <<program, env, cwd, jobserver, display_env_vars>>

\* Args, were the new arguments put before the old ones.
ArgsPrepend(xs) ==
    /\ args' = xs \o args
    /\ Logged(Call("args", "", xs))
    /\ UNCHANGED <<program, env, cwd, jobserver, display_env_vars>>

\* self.args.extend(args)
Args(xs) ==
    /\ args' = args \o xs
    /\ Logged(Call("args", "", xs))
    /\ UNCHANGED <<program, env, cwd, jobserver, display_env_vars>>

\* self.args = args
ArgsReplace(xs) ==
    /\ args' = xs
    /\ Logged(Call("args_replace", "", xs))
    /\ UNCHANGED <<program, env, cwd, jobserver, display_env_vars>>

Cwd(path) ==
    /\ cwd' = Some(path)
    /\ Logged(Call("cwd", "", <<path>>))
    /\ UNCHANGED <<program, args, env, jobserver, display_env_vars>>

\* self.env.insert(key, Some(val))
Env(key, val) ==
    /\ env' = MapInsert(env, key, Some(val))
    /\ Logged(Call("env", key, <<val>>))
    /\ UNCHANGED <<program, args, cwd, jobserver, display_env_vars>>

\* self.env.insert(key, None)
EnvRemove(key) ==
    /\ env' = MapInsert(env, key, None)
    /\ Logged(Call("env_remove", key, <<>>))
    /\ UNCHANGED <<program, args, cwd, jobserver, display_env_vars>>

InheritJobserver ==
    /\ jobserver' = Some(Client)
    /\ Logged(Call("inherit_jobserver", "", <<>>))
    /\ UNCHANGED <<program, args, env, cwd, display_env_vars>>

DisplayEnvVars ==
    /\ display_env_vars' = TRUE
    /\ Logged(Call("display_env_vars", "", <<>>))
    /\ UNCHANGED <<program, args, env, cwd, jobserver>>

\* The wrappers wrapped is called with: none, the empty one, a real one.
Wrappers == {None, Some(""), Some("sccache")}

\* OsStr::is_empty
is_empty(s) == s = ""

\* Wrapped, were the old program put after the old arguments.
WrappedProgramLast(wrapper) ==
    /\ IF IsSome(wrapper) /\ ~is_empty(Unwrap(wrapper))
       THEN /\ args' = Append(args, program)
            /\ program' = Unwrap(wrapper)
       ELSE UNCHANGED <<program, args>>
    /\ Logged(Call("wrapped", "", wrapper))
    /\ UNCHANGED <<env, cwd, jobserver, display_env_vars>>

\* pub fn wrapped(mut self, wrapper): no wrapper or an empty one returns self
\* as it is; else args = once(self.program).chain(self.args), program =
\* wrapper.
Wrapped(wrapper) ==
    /\ IF IsSome(wrapper) /\ ~is_empty(Unwrap(wrapper))
       THEN /\ args' = <<program>> \o args
            /\ program' = Unwrap(wrapper)
       ELSE UNCHANGED <<program, args>>
    /\ Logged(Call("wrapped", "", wrapper))
    /\ UNCHANGED <<env, cwd, jobserver, display_env_vars>>

get_program == program
get_args == args
get_cwd == cwd

\* get_env, were the overlay flattened before the fallback: an entry that
\* unsets the variable falls back to the calling process's value.
get_env_flatten_first(var) ==
    LET got == MapGet(env, var)
        flat == IF IsSome(got) THEN Unwrap(got) ELSE None
    IN  IF IsSome(flat) THEN flat ELSE var_os(var)

\* self.env.get(var).cloned().or_else(|| Some(env::var_os(var)))
\*     .and_then(|s| s)
get_env(var) ==
    LET got == MapGet(env, var)
        or_else == IF IsSome(got) THEN got ELSE Some(var_os(var))
    IN  Unwrap(or_else)

\* std::process::Command: the program, the arguments, the directory, and
\* the changes to the inherited environment (Some(v): set, None: removed).
CommandNew(p) == [program |-> p, args |-> <<>>, cwd |-> None, envs |-> EmptyMap]
CommandArg(c, a) == [c EXCEPT !.args = Append(@, a)]
CommandEnv(c, k, v) == [c EXCEPT !.envs = MapInsert(@, k, Some(v))]
CommandEnvRemove(c, k) == [c EXCEPT !.envs = MapInsert(@, k, None)]
CommandCurrentDir(c, d) == [c EXCEPT !.cwd = Some(d)]

\* jobserver::Client::configure(&mut command): the child is told of the
\* jobserver through the environment variable CARGO_MAKEFLAGS.
JobserverAuth == "--jobserver-auth"
configure(c) == CommandEnv(c, "CARGO_MAKEFLAGS", JobserverAuth)

\* for arg in &self.args { command.arg(arg); }, from argument i on.
RECURSIVE PassArgs(_, _, _)
PassArgs(c, as, i) ==
    IF i > Len(as) THEN c ELSE PassArgs(CommandArg(c, as[i]), as, i + 1)

\* for (k, v) in &self.env { .. }, over the keys ks left.
RECURSIVE PassEnv(_, _, _)
PassEnv(c, m, ks) ==
    IF ks = {} THEN c
    ELSE LET k == CHOOSE x \in ks : TRUE
             c1 == IF IsSome(m[k]) THEN CommandEnv(c, k, Unwrap(m[k]))
                   ELSE CommandEnvRemove(c, k)
         IN  PassEnv(c1, m, ks \ {k})

build_command ==
    LET c0 == CommandNew(program)
        c1 == IF IsSome(get_cwd) THEN CommandCurrentDir(c0, Unwrap(get_cwd)) ELSE c0
        c2 == PassArgs(c1, args, 1)
        c3 == PassEnv(c2, env, DOMAIN env)
    IN  IF IsSome(jobserver) THEN configure(c3) ELSE c3

\* The value of var in the environment of the child that command starts:
\* what the command sets or removes, else what the calling process has.
ChildEnv(command, var) ==
    IF var \in DOMAIN command.envs THEN command.envs[var] ELSE ambient[var]

\* self.env.iter(): the keys of a BTreeMap come in the order of String.
KeyOrder == <<"CARGO_MAKEFLAGS", "X">>

\* shell_escape::escape: a non-empty word of plain characters, as all the
\* model's values are, is left as it is; the empty word is quoted.
escape(s) ==
    IF s # "" THEN s
    ELSE IF platform = "windows" THEN "\"\"" ELSE "''"

\* The character that opens and closes the rendering.
Backtick == "(backtick)"

\* write!(f, fmt, a, b): one piece of the rendering.
Piece(fmt, a, b) == [fmt |-> fmt, a |-> a, b |-> b]

\* EnvPieces, were an entry that unsets its variable shown with no value.
RECURSIVE EnvPiecesUnsetToo(_)
EnvPiecesUnsetToo(i) ==
    IF i > Len(KeyOrder) THEN <<>>
    ELSE LET key == KeyOrder[i]
             fmt == IF platform = "windows" THEN "set {}={}&& " ELSE "{}={} "
         IN  (IF key \in DOMAIN env
              THEN <<Piece(fmt, key,
                           IF IsSome(env[key]) THEN escape(Unwrap(env[key]))
                           ELSE "")>>
              ELSE <<>>) \o EnvPiecesUnsetToo(i + 1)

\* for (key, val) in self.env.iter() { if let Some(val) = val { write!(..) } },
\* from the i-th key on.
RECURSIVE EnvPieces(_)
EnvPieces(i) ==
    IF i > Len(KeyOrder) THEN <<>>
    ELSE LET key == KeyOrder[i]
             fmt == IF platform = "windows" THEN "set {}={}&& " ELSE "{}={} "
         IN  (IF key \in DOMAIN env /\ IsSome(env[key])
              THEN <<Piece(fmt, key, escape(Unwrap(env[key])))>>
              ELSE <<>>) \o EnvPieces(i + 1)

\* impl fmt::Display for ProcessBuilder: the pieces written, in order.
Display ==
    <<Piece(Backtick, "", "")>>
      \o (IF display_env_vars THEN EnvPieces(1) ELSE <<>>)
      \o <<Piece("{}", program, "")>>
      \o [i \in 1..Len(args) |-> Piece(" {}", escape(args[i]), "")]
      \o <<Piece(Backtick, "", "")>>

\* Between two calls nothing of the streaming execution moves.
IdleStreaming ==
    /\ mode = "none"
    /\ handler = FALSE
    /\ capture_output = FALSE
    /\ src_out = <<>> /\ src_err = <<>>
    /\ exit_code = None
    /\ child = "none"
    /\ w_out = 0 /\ w_err = 0
    /\ pipe_out = <<>> /\ pipe_err = <<>>
    /\ data_out = <<>> /\ data_err = <<>>
    /\ eof_out = FALSE /\ eof_err = FALSE
    /\ pc = "start"
    /\ stdout = <<>> /\ stderr = <<>>
    /\ callback_error = None
    /\ calls = <<>>
    /\ status = None
    /\ outcome = None

InitB ==
    /\ InitBuilder
    /\ platform \in Platforms
    /\ ambient \in [EnvKeys -> {None, Some(AmbientVal)}]
    /\ IdleStreaming

NextB ==
    \/ \E p \in Programs : Program(p)
    \/ \E a \in ArgVals : Arg(a)
    \/ \E xs \in Batches : Args(xs)
    \/ \E xs \in Batches : ArgsReplace(xs)
    \/ Cwd(Dir)
    \/ \E k \in EnvKeys, v \in EnvVals : Env(k, v)
    \/ \E k \in EnvKeys : EnvRemove(k)
    \/ InheritJobserver
    \/ DisplayEnvVars

SpecBuilder == InitB /\ [][NextB]_vars

\* The builder's calls, wrapped among them.
NextW ==
    \/ NextB
    \/ \E w \in Wrappers : Wrapped(w)

SpecWrap == InitB /\ [][NextW]_vars

\* ------------------------------------------------- the result (CargoResult)

\* Output { stdout, stderr, status }
Output(out, err, code) == [stdout |-> out, stderr |-> err, status |-> code]

\* process_error(msg, status, output), and the error's context (the user's
\* callback error, or the io::Error "could not execute process" wraps).
ProcessError(msg, st, output, context, cause) ==
    [ok |-> FALSE, desc |-> msg, status |-> st, output |-> output,
     context |-> context, cause |-> cause, value |-> None]

Ok(output) ==
    [ok |-> TRUE, desc |-> "", status |-> None, output |-> None,
     context |-> None, cause |-> "", value |-> Some(output)]

\* .chain_err(|| process_error("could not execute process ..", None, None))?
CouldNotExecute(what) ==
    ProcessError("could not execute process", None, None, None, what)

\* Compose with the two tests in the other order: the exit status first.
ComposeExitFirst(capture, output, cbe) ==
    LET to_print == IF capture THEN Some(output) ELSE None
    IN  IF ~success(output.status)
        THEN ProcessError("process didn't exit successfully",
                          Some(output.status), to_print, None, "")
        ELSE IF IsSome(cbe)
        THEN ProcessError("failed to parse process output",
                          Some(output.status), to_print, cbe, "")
        ELSE Ok(output)

\* Compose without the test of the exit status.
ComposeIgnoreExit(capture, output, cbe) ==
    LET to_print == IF capture THEN Some(output) ELSE None
    IN  IF IsSome(cbe)
        THEN ProcessError("failed to parse process output",
                          Some(output.status), to_print, cbe, "")
        ELSE Ok(output)

\* if let Some(e) = callback_error { .. } else if !output.status.success()
\* { .. }; Ok(output)
Compose(capture, output, cbe) ==
    LET to_print == IF capture THEN Some(output) ELSE None
    IN  IF IsSome(cbe)
        THEN ProcessError("failed to parse process output",
                          Some(output.status), to_print, cbe, "")
        ELSE IF ~success(output.status)
        THEN ProcessError("process didn't exit successfully",
                          Some(output.status), to_print, None, "")
        ELSE Ok(output)

\* ------------------------------------------- the closure handed to read2b

\* split_index, were a buffer without a line terminator split at its end.
split_index_eager(data, eof) ==
    LET p == rposition_newline(data)
    IN  IF eof \/ ~IsSome(p) THEN Some(Len(data)) ELSE Some(Unwrap(p) + 1)

\* let idx = if eof { data.len() } else { match rposition .. { Some(i) =>
\* i + 1, None => return } }; None stands for the early return.
split_index(data, eof) ==
    IF eof THEN Some(Len(data))
    ELSE LET p == rposition_newline(data)
         IN  IF IsSome(p) THEN Some(Unwrap(p) + 1) ELSE None

\* drain, were nothing removed from data.
drain_nothing(data, idx) == data

\* drain, were the range one byte short.
drain_short(data, idx) ==
    SubSeq(data, IF idx > 0 THEN idx ELSE 1, Len(data))

\* data.drain(..idx): what is left of data.
drain(data, idx) == SubSeq(data, idx + 1, Len(data))

\* extend, were capture given up once a callback has failed.
extend_until_failure(dst, data, idx) ==
    IF IsSome(callback_error) THEN dst ELSE dst \o SubSeq(data, 1, idx)

\* dst.extend(data.drain(..idx)): dst afterwards.
extend(dst, data, idx) == dst \o SubSeq(data, 1, idx)

\* new_lines, were the slice of the capture buffer &dst[..].
new_lines_whole(capture, dst, start, data, idx) ==
    IF capture THEN dst ELSE SubSeq(data, 1, idx)

\* new_lines: &dst[start..] when capturing (dst is the capture buffer after
\* the extend), &data[..idx] when not.
new_lines(capture, dst, start, data, idx) ==
    IF capture THEN SubSeq(dst, start + 1, Len(dst)) ELSE SubSeq(data, 1, idx)

\* for line in String::from_utf8_lossy(new_lines).lines() { .. }: from line
\* i on. res[i] is what the callback returns for line i (TRUE: Ok(())); the
\* error of the n-th invocation of the execution is n.
\* Dispatch without the break: the loop goes on after a callback failed.
RECURSIVE DispatchNoBreak(_, _, _, _, _, _)
DispatchNoBreak(ls, res, i, is_out, cbe, cs) ==
    IF i > Len(ls) THEN [callback_error |-> cbe, calls |-> cs]
    ELSE LET r == IF i <= Len(res) THEN res[i] ELSE TRUE
             call == [is_out |-> is_out, line |-> ls[i], ok |-> r]
         IN  DispatchNoBreak(ls, res, i + 1, is_out,
                             IF r THEN cbe ELSE Some(Len(cs) + 1),
                             Append(cs, call))

\* Dispatch, were the lines of stdout given to on_stderr_line and the lines
\* of stderr to on_stdout_line.
RECURSIVE DispatchSwapped(_, _, _, _, _, _)
DispatchSwapped(ls, res, i, is_out, cbe, cs) ==
    IF i > Len(ls) THEN [callback_error |-> cbe, calls |-> cs]
    ELSE IF IsSome(cbe) THEN [callback_error |-> cbe, calls |-> cs]
    ELSE LET r == IF i <= Len(res) THEN res[i] ELSE TRUE
             call == [is_out |-> ~is_out, line |-> ls[i], ok |-> r]
         IN  DispatchSwapped(ls, res, i + 1, is_out,
                             IF r THEN cbe ELSE Some(Len(cs) + 1),
                             Append(cs, call))

RECURSIVE Dispatch(_, _, _, _, _, _)
Dispatch(ls, res, i, is_out, cbe, cs) ==
    IF i > Len(ls) THEN [callback_error |-> cbe, calls |-> cs]
    ELSE IF IsSome(cbe) THEN [callback_error |-> cbe, calls |-> cs]
    ELSE LET r == IF i <= Len(res) THEN res[i] ELSE TRUE
             call == [is_out |-> is_out, line |-> ls[i], ok |-> r]
         IN  Dispatch(ls, res, i + 1, is_out,
                      IF r THEN cbe ELSE Some(Len(cs) + 1), Append(cs, call))

\* The closure |is_out, data, eof| of exec_with_streaming, on the buffer data
\* of stream is_out: the buffer it leaves, and the captured locals after it.
Handler(is_out, data, eof, res) ==
    LET idx == split_index(data, eof)
    IN  IF ~IsSome(idx)
        THEN [data |-> data, stdout |-> stdout, stderr |-> stderr,
              callback_error |-> callback_error, calls |-> calls]
        ELSE
          LET n == Unwrap(idx)
              dst0 == IF is_out THEN stdout ELSE stderr
              start == Len(dst0)
              dst == IF capture_output THEN extend(dst0, data, n) ELSE dst0
              data1 == IF capture_output THEN drain(data, n) ELSE data
              nl == new_lines(capture_output, dst, start, data, n)
              d == Dispatch(lines(from_utf8_lossy(nl)), res, 1, is_out,
                            callback_error, calls)
              data2 == IF ~capture_output THEN drain(data1, n) ELSE data1
          IN  [data |-> data2,
               stdout |-> IF is_out THEN dst ELSE stdout,
               stderr |-> IF is_out THEN stderr ELSE dst,
               callback_error |-> d.callback_error,
               calls |-> d.calls]

\* The lines the closure has ready on data: one callback result is drawn for
\* each.
ReadyLines(data, eof) ==
    LET idx == split_index(data, eof)
    IN  IF IsSome(idx)
        THEN lines(from_utf8_lossy(SubSeq(data, 1, Unwrap(idx))))
        ELSE <<>>

\* ------------------------------------------------------------------- Init

\* Before the entry point's first step: the child to come and the locals.
InitRun ==
    /\ capture_output \in BOOLEAN
    /\ src_out \in SeqsUpTo(Bytes, MaxBytes)
    /\ src_err \in SeqsUpTo(Bytes, MaxBytes)
    /\ Len(src_out) + Len(src_err) <= MaxBytes
    /\ exit_code = None
    /\ child = "none"
    /\ w_out = 0 /\ w_err = 0
    /\ pipe_out = <<>> /\ pipe_err = <<>>
    /\ data_out = <<>> /\ data_err = <<>>
    /\ eof_out = FALSE /\ eof_err = FALSE
    /\ pc = "start"
    /\ stdout = <<>> /\ stderr = <<>>
    /\ callback_error = None
    /\ calls = <<>>
    /\ status = None
    /\ outcome = None

InitStreaming ==
    /\ mode = "exec_with_streaming"
    /\ handler = FALSE
    /\ InitRun

Init ==
    /\ InitBuilder
    /\ platform = "unix"
    /\ ambient = [k \in EnvKeys |-> None]
    /\ InitStreaming

\* ------------------------------------------------------------- the child

cvars == <<bvars, platform, mode, handler, capture_output, src_out, src_err>>
lvars == <<stdout, stderr, callback_error, calls>>
mvars == <<data_out, data_err, eof_out, eof_err>>

\* The child writes its next byte to a pipe that has room for it.
ChildWrite(is_out) ==
    /\ child = "running"
    /\ IF is_out
       THEN /\ w_out < Len(src_out)
            /\ Len(pipe_out) < PipeCap
            /\ pipe_out' = Append(pipe_out, src_out[w_out + 1])
            /\ w_out' = w_out + 1
            /\ UNCHANGED <<pipe_err, w_err>>
       ELSE /\ w_err < Len(src_err)
            /\ Len(pipe_err) < PipeCap
            /\ pipe_err' = Append(pipe_err, src_err[w_err + 1])
            /\ w_err' = w_err + 1
            /\ UNCHANGED <<pipe_out, w_out>>
    /\ UNCHANGED <<cvars, exit_code, lvars, mvars, child, pc, status, outcome>>

\* The child has written everything: it closes its ends of the pipes.
ChildClose ==
    /\ child = "running"
    /\ w_out = Len(src_out) /\ w_err = Len(src_err)
    /\ child' = "closed"
    /\ UNCHANGED <<cvars, exit_code, lvars, mvars, w_out, w_err, pipe_out, pipe_err,
                   pc, status, outcome>>

\* The child exits; until it is waited for it stays a zombie.
ChildExit ==
    /\ child = "closed"
    /\ child' = "exited"
    /\ \E code \in ExitCodes : exit_code' = Some(code)
    /\ UNCHANGED <<cvars, lvars, mvars, w_out, w_err, pipe_out, pipe_err,
                   pc, status, outcome>>

\* ---------------------------------------------------- exec_with_streaming

\* Spawn, were child.wait() called before read2b.
SpawnThenWait ==
    /\ mode = "exec_with_streaming"
    /\ pc = "start"
    /\ pc' = "waiting"
    /\ child' = "running"
    /\ UNCHANGED <<cvars, exit_code, lvars, mvars, w_out, w_err, pipe_out,
                   pipe_err, status, outcome>>

\* let mut child = cmd.spawn()?;
Spawn ==
    /\ mode = "exec_with_streaming"
    /\ pc = "start"
    /\ pc' = "reading"
    /\ child' = "running"
    /\ UNCHANGED <<cvars, exit_code, lvars, mvars, w_out, w_err, pipe_out, pipe_err,
                   status, outcome>>

\* cmd.spawn() fails: the closure returns the error, chain_err wraps it, ?
\* returns it.
SpawnFail ==
    /\ mode = "exec_with_streaming"
    /\ pc = "start"
    /\ status' = Some(IoErr("spawn"))
    /\ outcome' = Some(CouldNotExecute("spawn"))
    /\ pc' = "done"
    /\ UNCHANGED <<cvars, exit_code, lvars, mvars, child, w_out, w_err, pipe_out,
                   pipe_err>>

\* read2b reads what a pipe holds into the stream's buffer and calls the
\* closure on the buffer, end of stream not reached.
MuxRead(is_out) ==
    /\ pc = "reading"
    /\ LET pipe == IF is_out THEN pipe_out ELSE pipe_err
           buf == (IF is_out THEN data_out ELSE data_err) \o pipe
       IN  /\ ~(IF is_out THEN eof_out ELSE eof_err)
           /\ pipe # <<>>
           /\ \E res \in [1..Len(ReadyLines(buf, FALSE)) -> BOOLEAN] :
                LET h == Handler(is_out, buf, FALSE, res)
                IN  /\ stdout' = h.stdout
                    /\ stderr' = h.stderr
                    /\ callback_error' = h.callback_error
                    /\ calls' = h.calls
                    /\ IF is_out
                       THEN /\ data_out' = h.data
                            /\ pipe_out' = <<>>
                            /\ UNCHANGED <<data_err, pipe_err>>
                       ELSE /\ data_err' = h.data
                            /\ pipe_err' = <<>>
                            /\ UNCHANGED <<data_out, pipe_out>>
    /\ UNCHANGED <<cvars, exit_code, child, w_out, w_err, eof_out, eof_err, pc, status,
                   outcome>>

\* read2b reads a closed pipe to its end and calls the closure on the
\* buffer with end of stream set, once per stream.
MuxEof(is_out) ==
    /\ pc = "reading"
    /\ child \in {"closed", "exited"}
    /\ LET pipe == IF is_out THEN pipe_out ELSE pipe_err
           buf == (IF is_out THEN data_out ELSE data_err) \o pipe
       IN  /\ ~(IF is_out THEN eof_out ELSE eof_err)
           /\ \E res \in [1..Len(ReadyLines(buf, TRUE)) -> BOOLEAN] :
                LET h == Handler(is_out, buf, TRUE, res)
                IN  /\ stdout' = h.stdout
                    /\ stderr' = h.stderr
                    /\ callback_error' = h.callback_error
                    /\ calls' = h.calls
                    /\ IF is_out
                       THEN /\ data_out' = h.data
                            /\ pipe_out' = <<>>
                            /\ eof_out' = TRUE
                            /\ UNCHANGED <<data_err, pipe_err, eof_err>>
                       ELSE /\ data_err' = h.data
                            /\ pipe_err' = <<>>
                            /\ eof_err' = TRUE
                            /\ UNCHANGED <<data_out, pipe_out, eof_out>>
    /\ UNCHANGED <<cvars, exit_code, child, w_out, w_err, pc, status, outcome>>

\* MuxReturn, were the callback error returned as soon as read2b is back,
\* before child.wait().
MuxReturnBail ==
    /\ pc = "reading"
    /\ eof_out /\ eof_err
    /\ IF IsSome(callback_error)
       THEN /\ outcome' = Some(ProcessError("failed to parse process output",
                                            None, None, callback_error, ""))
            /\ pc' = "done"
       ELSE /\ pc' = "waiting"
            /\ UNCHANGED outcome
    /\ UNCHANGED <<cvars, exit_code, lvars, mvars, child, w_out, w_err,
                   pipe_out, pipe_err, status>>

\* read2b returns Ok(()) once both streams are at their end; child.wait()
\* is next.
MuxReturn ==
    /\ pc = "reading"
    /\ eof_out /\ eof_err
    /\ pc' = "waiting"
    /\ UNCHANGED <<cvars, exit_code, lvars, mvars, child, w_out, w_err, pipe_out,
                   pipe_err, status, outcome>>

\* MuxFail, were a callback error recorded before the failure returned in
\* its place.
MuxFailKeepsCallback ==
    /\ pc = "reading"
    /\ status' = Some(IoErr("read2b"))
    /\ outcome' = Some(IF IsSome(callback_error)
                       THEN ProcessError("failed to parse process output",
                                         None, None, callback_error, "")
                       ELSE CouldNotExecute("read2b"))
    /\ pc' = "done"
    /\ UNCHANGED <<cvars, exit_code, lvars, mvars, child, w_out, w_err, pipe_out,
                   pipe_err>>

\* read2b returns an io::Error: the ? after the call leaves the closure,
\* chain_err wraps the error and the ? after it returns it.
MuxFail ==
    /\ pc = "reading"
    /\ status' = Some(IoErr("read2b"))
    /\ outcome' = Some(CouldNotExecute("read2b"))
    /\ pc' = "done"
    /\ UNCHANGED <<cvars, exit_code, lvars, mvars, child, w_out, w_err, pipe_out,
                   pipe_err>>

\* child.wait() returns the exit status of the child, which has exited.
Wait ==
    /\ pc = "waiting"
    /\ child = "exited"
    /\ child' = "reaped"
    /\ status' = Some(IoOk(Unwrap(exit_code)))
    /\ pc' = "compose"
    /\ UNCHANGED <<cvars, exit_code, lvars, mvars, w_out, w_err, pipe_out, pipe_err,
                   outcome>>

\* child.wait() returns an io::Error.
WaitFail ==
    /\ pc = "waiting"
    /\ status' = Some(IoErr("wait"))
    /\ outcome' = Some(CouldNotExecute("wait"))
    /\ pc' = "done"
    /\ UNCHANGED <<cvars, exit_code, lvars, mvars, child, w_out, w_err, pipe_out,
                   pipe_err>>

\* let output = Output { stdout, stderr, status }; and the result.
Return ==
    /\ pc = "compose"
    /\ outcome' = Some(Compose(capture_output,
                               Output(stdout, stderr, Unwrap(status).code),
                               callback_error))
    /\ pc' = "done"
    /\ UNCHANGED <<cvars, exit_code, lvars, mvars, child, w_out, w_err, pipe_out,
                   pipe_err, status>>

Next ==
    \/ Spawn
    \/ SpawnFail
    \/ \E is_out \in BOOLEAN : ChildWrite(is_out)
    \/ ChildClose
    \/ ChildExit
    \/ \E is_out \in BOOLEAN : MuxRead(is_out)
    \/ \E is_out \in BOOLEAN : MuxEof(is_out)
    \/ MuxReturn
    \/ MuxFail
    \/ Wait
    \/ WaitFail
    \/ Return

Spec == Init /\ [][Next]_vars

\* The steps that are no failure of spawn, read2b or wait: the child runs,
\* read2b delivers what a pipe holds and the end of a closed pipe, the
\* callbacks return, wait returns once the child has exited.
Progress ==
    \/ Spawn
    \/ \E is_out \in BOOLEAN : ChildWrite(is_out)
    \/ ChildClose
    \/ ChildExit
    \/ \E is_out \in BOOLEAN : MuxRead(is_out)
    \/ \E is_out \in BOOLEAN : MuxEof(is_out)
    \/ MuxReturn
    \/ Wait
    \/ Return

\* The children that write to one stream only, lines of text.
InitOneSided ==
    /\ Init
    /\ src_out = <<>> \/ src_err = <<>>
    /\ \A i \in 1..Len(src_out) : src_out[i] \in {"a", LF}
    /\ \A i \in 1..Len(src_err) : src_err[i] \in {"a", LF}

SpecLive == InitOneSided /\ [][Next]_vars /\ WF_vars(Progress)

\* ------------------------------------ exec, exec_with_output, exec_replace

\* Ok(())
Unit == [unit |-> TRUE]

\* if exit.success() { Ok(()) } else { Err(process_error(.., Some(exit),
\* None)) }
ExecResult(exit) ==
    IF success(exit) THEN Ok(Unit)
    ELSE ProcessError("process didn't exit successfully", Some(exit), None,
                      None, "")

\* OutputResult, were the Output left out of the error.
OutputResultBare(output) ==
    IF success(output.status) THEN Ok(output)
    ELSE ProcessError("process didn't exit successfully",
                      Some(output.status), None, None, "")

\* if output.status.success() { Ok(output) } else { Err(process_error(..,
\* Some(output.status), Some(&output))) }
OutputResult(output) ==
    IF success(output.status) THEN Ok(output)
    ELSE ProcessError("process didn't exit successfully",
                      Some(output.status), Some(output), None, "")

\* exec is entered: called by the user, or by exec_replace on windows.
AtExec ==
    \/ mode = "exec" /\ pc = "start"
    \/ mode = "exec_replace" /\ pc = "exec"

\* What the steps of the entry points other than exec_with_streaming leave
\* alone: the builder, the arguments, the pipes and read2b's buffers.
xvars == <<bvars, platform, mode, capture_output, src_out, src_err,
           pipe_out, pipe_err, mvars, callback_error, calls>>

\* command.status() starts the child, which inherits the streams, waits for
\* it and returns its exit status.
Status ==
    /\ AtExec
    /\ \E code \in ExitCodes :
          /\ exit_code' = Some(code)
          /\ status' = Some(IoOk(code))
    /\ child' = "reaped"
    /\ pc' = "exec_status"
    /\ UNCHANGED <<xvars, handler, w_out, w_err, stdout, stderr, outcome>>

\* command.status() fails, in starting the child or in waiting for it:
\* chain_err wraps the error and ? returns it.
StatusFail ==
    /\ AtExec
    /\ child' \in {"none", "running"}
    /\ status' = Some(IoErr("status"))
    /\ outcome' = Some(CouldNotExecute("status"))
    /\ pc' = "done"
    /\ UNCHANGED <<xvars, handler, exit_code, w_out, w_err, stdout, stderr>>

\* exec returns by the exit status.
ExecReturn ==
    /\ pc = "exec_status"
    /\ outcome' = Some(ExecResult(Unwrap(status).code))
    /\ pc' = "done"
    /\ UNCHANGED <<xvars, handler, exit_code, child, w_out, w_err, stdout,
                   stderr, status>>

\* command.output() starts the child with piped streams, collects all it
\* writes, waits for it and returns the Output.
CommandOutput ==
    /\ mode = "exec_with_output" /\ pc = "start"
    /\ \E code \in ExitCodes :
          /\ exit_code' = Some(code)
          /\ status' = Some(IoOk(code))
    /\ child' = "reaped"
    /\ w_out' = Len(src_out) /\ w_err' = Len(src_err)
    /\ stdout' = src_out /\ stderr' = src_err
    /\ pc' = "output"
    /\ UNCHANGED <<xvars, handler, outcome>>

\* command.output() fails.
CommandOutputFail ==
    /\ mode = "exec_with_output" /\ pc = "start"
    /\ child' \in {"none", "running"}
    /\ status' = Some(IoErr("output"))
    /\ outcome' = Some(CouldNotExecute("output"))
    /\ pc' = "done"
    /\ UNCHANGED <<xvars, handler, exit_code, w_out, w_err, stdout, stderr>>

\* exec_with_output returns by the Output's status.
OutputReturn ==
    /\ pc = "output"
    /\ outcome' = Some(OutputResult(Output(stdout, stderr,
                                           Unwrap(status).code)))
    /\ pc' = "done"
    /\ UNCHANGED <<xvars, handler, exit_code, child, w_out, w_err, stdout,
                   stderr, status>>

\* unix: command.exec() replaces the process image; nothing of the caller
\* runs any more.
Execvp ==
    /\ mode = "exec_replace" /\ platform = "unix" /\ pc = "start"
    /\ pc' = "replaced"
    /\ UNCHANGED <<xvars, handler, exit_code, child, w_out, w_err, stdout,
                   stderr, status, outcome>>

\* unix: command.exec() returns its error, which is returned in the context
\* "could not execute process".
ExecvpFail ==
    /\ mode = "exec_replace" /\ platform = "unix" /\ pc = "start"
    /\ status' = Some(IoErr("execvp"))
    /\ outcome' = Some(CouldNotExecute("execvp"))
    /\ pc' = "done"
    /\ UNCHANGED <<xvars, handler, exit_code, child, w_out, w_err, stdout,
                   stderr>>

\* SetCtrlHandlerFail, were the failure ignored and exec called all the same.
SetCtrlHandlerIgnored ==
    /\ mode = "exec_replace" /\ platform = "windows" /\ pc = "start"
    /\ pc' = "exec"
    /\ UNCHANGED <<xvars, handler, exit_code, child, w_out, w_err, stdout,
                   stderr, status, outcome>>

\* windows: SetConsoleCtrlHandler(Some(ctrlc_handler), TRUE) succeeds;
\* process_builder.exec() is next.
SetCtrlHandler ==
    /\ mode = "exec_replace" /\ platform = "windows" /\ pc = "start"
    /\ handler' = TRUE
    /\ pc' = "exec"
    /\ UNCHANGED <<xvars, exit_code, child, w_out, w_err, stdout, stderr,
                   status, outcome>>

\* windows: SetConsoleCtrlHandler returns FALSE.
SetCtrlHandlerFail ==
    /\ mode = "exec_replace" /\ platform = "windows" /\ pc = "start"
    /\ outcome' = Some(ProcessError("Could not set Ctrl-C handler.", None,
                                    None, None, ""))
    /\ pc' = "done"
    /\ UNCHANGED <<xvars, handler, exit_code, child, w_out, w_err, stdout,
                   stderr, status>>

Modes == {"exec", "exec_with_output", "exec_with_streaming", "exec_replace"}

\* Any entry point is called, on any platform, for a child that writes
\* lines of text.
InitExec ==
    /\ InitBuilder
    /\ ambient = [k \in EnvKeys |-> None]
    /\ platform \in Platforms
    /\ mode \in Modes
    /\ handler = FALSE
    /\ InitRun
    /\ \A i \in 1..Len(src_out) : src_out[i] \in {"a", LF}
    /\ \A i \in 1..Len(src_err) : src_err[i] \in {"a", LF}

NextExec ==
    \/ Next
    \/ Status
    \/ StatusFail
    \/ ExecReturn
    \/ CommandOutput
    \/ CommandOutputFail
    \/ OutputReturn
    \/ Execvp
    \/ ExecvpFail
    \/ SetCtrlHandler
    \/ SetCtrlHandlerFail

SpecExec == InitExec /\ [][NextExec]_vars

\* ------------------------------------------------------------ properties

\* The lines the callback of stream is_out was invoked with, in order.
RECURSIVE DeliveredIn(_, _)
DeliveredIn(cs, is_out) ==
    IF cs = <<>> THEN <<>>
    ELSE (IF Head(cs).is_out = is_out THEN <<Head(cs).line>> ELSE <<>>)
            \o DeliveredIn(Tail(cs), is_out)
Delivered(is_out) == DeliveredIn(calls, is_out)

ReadOk == IsSome(status) /\ Unwrap(status).ok
Done == pc = "done"

\* C1: in exec_with_streaming no callback, of either stream, is invoked
\* after a callback has returned an error: in the record of all invocations
\* a failed invocation is the last one, whatever the chunks and their order.
C1_NoCallbackAfterFailure ==
    /\ \A i \in 1..Len(calls) : calls[i].ok \/ i = Len(calls)
    /\ IsSome(callback_error) <=> \E i \in 1..Len(calls) : ~calls[i].ok

\* An execution that ended after the first stdout line failed, with further
\* lines on stdout and lines on stderr that were read and not delivered.
C1_Witness ==
    /\ Done /\ ReadOk
    /\ IsSome(callback_error)
    /\ Len(calls) = 1 /\ calls[1].is_out
    /\ Len(lines(from_utf8_lossy(src_out))) >= 2
    /\ Len(lines(from_utf8_lossy(src_err))) >= 1

\* C2: when a callback failure was recorded and the exit status that wait
\* returned is not success, exec_with_streaming returns the callback failure
\* ("failed to parse process output", with the callback's error as context);
\* "process didn't exit successfully" is returned only when no callback
\* failure was recorded.
C2_CallbackOutranksExit ==
    Done =>
        LET o == Unwrap(outcome)
        IN  /\ (ReadOk /\ IsSome(callback_error)
                  /\ ~success(Unwrap(status).code))
                 => /\ o.desc = "failed to parse process output"
                    /\ o.context = callback_error
            /\ o.desc = "process didn't exit successfully"
                 => callback_error = None

\* A callback failed and the child exited with code 7.
C2_Witness ==
    /\ Done /\ ReadOk
    /\ IsSome(callback_error)
    /\ Unwrap(status).code = 7

\* child.wait() was called: the closure's result is its result.
WaitPerformed ==
    /\ IsSome(status)
    /\ Unwrap(status).ok \/ Unwrap(status).err = "wait"

C4_OutcomeState ==
    /\ Done <=> IsSome(outcome)
    /\ Done =>
        LET o == Unwrap(outcome)
            st == Unwrap(status)
        IN  /\ IsSome(status)
            /\ st.ok <=> (child = "reaped" /\ eof_out /\ eof_err)
            /\ o.ok <=> (st.ok /\ callback_error = None /\ success(st.code))
            /\ o.ok => o.value = Some(Output(stdout, stderr, st.code))
            /\ o.ok <=> IsSome(o.value)
            /\ (st.ok /\ ~success(st.code) /\ callback_error = None)
                 => /\ o.desc = "process didn't exit successfully"
                    /\ o.status = Some(st.code)
                    /\ exit_code = Some(st.code)
C4_ExactlyOneOutcome ==
    /\ []C4_OutcomeState
    /\ [][IsSome(outcome) => outcome' = outcome]_vars

\* The child exited with code 7, no callback failed.
C4_Witness ==
    /\ Done /\ ReadOk
    /\ callback_error = None
    /\ exit_code = Some(7)
    /\ Unwrap(outcome).status = Some(7)
    /\ Len(calls) >= 1

\* A text as bytes (UTF-8), and lines rejoined: each followed by "\n".
RECURSIVE Encode(_)
Encode(text) ==
    IF text = <<>> THEN <<>>
    ELSE (IF Head(text) = REPL THEN ReplUtf8 ELSE <<Head(text)>>)
            \o Encode(Tail(text))
RECURSIVE Rejoin(_)
Rejoin(ls) ==
    IF ls = <<>> THEN <<>>
    ELSE Encode(Head(ls)) \o <<LF>> \o Rejoin(Tail(ls))

\* A buffer up to its last "\n", the "\n" included.
UpToLastLF(buf) ==
    LET p == rposition_newline(buf)
    IN  IF IsSome(p) THEN SubSeq(buf, 1, Unwrap(p) + 1) ELSE <<>>

\* Valid UTF-8 without "\r".
Plain(buf) == \A i \in 1..Len(buf) : buf[i] \notin {CR, BAD}
EndsLines(buf) == buf = <<>> \/ buf[Len(buf)] = LF

\* C5 as stated: with capture_output, after an execution the lines delivered
\* to the callback of a stream, rejoined with "\n", are the captured buffer
\* of the stream up to its last "\n".
C5_RejoinedIsCaptured ==
    (Done /\ ReadOk /\ capture_output)
        => /\ Rejoin(Delivered(TRUE)) = UpToLastLF(stdout)
           /\ Rejoin(Delivered(FALSE)) = UpToLastLF(stderr)

\* C5 as amended: with capture_output and as long as no callback has failed,
\* the lines delivered to the callback of a stream are the lines of the
\* captured buffer of the stream, decoded lossily and split by lines(), a last
\* line without "\n" included once the end of the stream was handled; when
\* the buffer is valid UTF-8 without "\r" and does not end in such a last
\* line, the lines rejoined with "\n" are the buffer up to its last "\n".
C5_DeliveredIsCapturedLines ==
    (capture_output /\ callback_error = None)
        => /\ Delivered(TRUE) = lines(from_utf8_lossy(stdout))
           /\ Delivered(FALSE) = lines(from_utf8_lossy(stderr))
           /\ (Plain(stdout) /\ EndsLines(stdout))
                => Rejoin(Delivered(TRUE)) = UpToLastLF(stdout)
           /\ (Plain(stderr) /\ EndsLines(stderr))
                => Rejoin(Delivered(FALSE)) = UpToLastLF(stderr)

\* A capturing execution without callback failure: one terminated line of
\* stdout (two bytes) and one line of stderr were delivered and captured.
C5_Witness ==
    /\ Done /\ ReadOk
    /\ capture_output /\ callback_error = None
    /\ Len(Delivered(TRUE)) = 1 /\ Len(Delivered(FALSE)) = 1
    /\ Plain(stdout) /\ EndsLines(stdout) /\ Len(stdout) = 2
    /\ stderr # <<>>

\* C6: without capture_output the capture buffers are empty in every state
\* and in the Output returned, no failure carries an Output, and, as long as
\* no callback has failed, once the end of a stream was handled its callback
\* has been given every line of the stream, in order.
C6_NoCaptureAllDelivered ==
    ~capture_output
        => /\ stdout = <<>> /\ stderr = <<>>
           /\ IsSome(outcome)
                => LET o == Unwrap(outcome)
                   IN  /\ o.output = None
                       /\ o.ok => /\ Unwrap(o.value).stdout = <<>>
                                  /\ Unwrap(o.value).stderr = <<>>
           /\ (callback_error = None /\ eof_out)
                => Delivered(TRUE) = lines(from_utf8_lossy(src_out))
           /\ (callback_error = None /\ eof_err)
                => Delivered(FALSE) = lines(from_utf8_lossy(src_err))

\* An execution without capture returned Ok; lines of both streams were
\* delivered.
C6_Witness ==
    /\ Done /\ ~capture_output
    /\ Unwrap(outcome).ok
    /\ Len(Delivered(TRUE)) >= 2
    /\ Len(Delivered(FALSE)) >= 1

\* C7: with a read2b that delivers what the pipes hold, callbacks that
\* return and a child that writes and exits, exec_with_streaming returns,
\* whatever the child writes to each of its two bounded pipes (more than a
\* pipe holds to one and nothing to the other among it), also after a
\* callback failure.
C7_Returns == <>Done

\* An execution returned after the child wrote more than a pipe holds to
\* stdout and nothing to stderr, and a callback had failed.
C7_Witness ==
    /\ Done /\ ReadOk
    /\ Len(src_out) > PipeCap /\ src_err = <<>>
    /\ IsSome(callback_error)

\* The same with the two streams exchanged.
C7_WitnessErr ==
    /\ Done /\ ReadOk
    /\ Len(src_err) > PipeCap /\ src_out = <<>>

\* The calls of env and env_remove on the variable var, in order.
EnvWrites(var) ==
    SelectSeq(ops, LAMBDA c : c.op \in {"env", "env_remove"} /\ c.key = var)

\* What the last write of var says: the value of the last env, None after
\* env_remove, the calling process's value when var was never written.
LastWritten(var) ==
    LET w == EnvWrites(var)
    IN  IF w = <<>> THEN ambient[var]
        ELSE IF w[Len(w)].op = "env" THEN Some(w[Len(w)].val[1])
        ELSE None

\* C8: after any sequence of calls, get_env(X) is what the last write of X
\* says: the value of the last env(X, v), None when the last write is
\* env_remove(X), and the calling process's value only when X was never
\* written.
C8_GetEnvIsLastWrite ==
    \A var \in EnvKeys : get_env(var) = LastWritten(var)

\* X is set in the calling process, was set by env and then removed by
\* env_remove: get_env gives None.
C8_Witness ==
    /\ IsSome(ambient["X"])
    /\ Len(EnvWrites("X")) >= 2
    /\ EnvWrites("X")[1].op = "env"
    /\ EnvWrites("X")[Len(EnvWrites("X"))].op = "env_remove"
    /\ get_env("X") = None

\* C9: for every variable, get_env gives the value the child started from
\* build_command's command finds in its environment, with and without a
\* jobserver.
C9_GetEnvIsChildEnv ==
    \A var \in EnvKeys : get_env(var) = ChildEnv(build_command, var)

\* The index of the last args_replace among the calls, 0 when there is none.
LastReplace ==
    IF \E i \in 1..Len(ops) : ops[i].op = "args_replace"
    THEN CHOOSE i \in 1..Len(ops) :
            /\ ops[i].op = "args_replace"
            /\ \A j \in (i + 1)..Len(ops) : ops[j].op # "args_replace"
    ELSE 0

\* The arguments of the calls of arg and args after call i, concatenated.
RECURSIVE AppendedAfter(_)
AppendedAfter(i) ==
    IF i >= Len(ops) THEN <<>>
    ELSE (IF ops[i + 1].op \in {"arg", "args"} THEN ops[i + 1].val ELSE <<>>)
            \o AppendedAfter(i + 1)

\* C10: the argument list is the list given to the last args_replace, if
\* any, followed by the arguments appended by arg and args since, in call
\* order; build_command passes exactly this list, in this order.
C10_ArgsInCallOrder ==
    LET given == IF LastReplace = 0 THEN <<>> ELSE ops[LastReplace].val
        expected == given \o AppendedAfter(LastReplace)
    IN  /\ args = expected
        /\ get_args = expected
        /\ build_command.args = expected

\* arg, then args_replace with two arguments, then args with one: three
\* arguments are passed, the first arg is gone.
C10_Witness ==
    /\ Len(ops) = 3
    /\ ops[1].op = "arg" /\ ops[1].val = <<"b">>
    /\ ops[2].op = "args_replace" /\ ops[2].val = <<"a", "b">>
    /\ ops[3].op = "args" /\ ops[3].val = <<"b">>
    /\ build_command.args = <<"a", "b", "b">>

\* The step is a call of wrapped with the wrapper w.
IsWrapped(w) == ops' = Append(ops, Call("wrapped", "", w))

\* C11: wrapped with a non-empty wrapper makes the wrapper the program and
\* the arguments the old program followed by the old arguments in order;
\* wrapped(None) and wrapped(Some("")) change neither; in every case the
\* overlay, the directory, the jobserver and the display flag stay as they are.
C11_Wrapped ==
    [][\A w \in Wrappers :
          IsWrapped(w) =>
            /\ IF w \in {None, Some("")}
               THEN program' = program /\ args' = args
               ELSE /\ program' = w[1]
                    /\ Len(args') = Len(args) + 1
                    /\ args'[1] = program
                    /\ \A i \in 1..Len(args) : args'[i + 1] = args[i]
            /\ UNCHANGED <<env, cwd, jobserver, display_env_vars>>]_vars

\* process("rustc") with the argument a, wrapped in sccache: the program is
\* sccache and the arguments are rustc, a.
C11_Witness ==
    /\ Len(ops) = 2
    /\ ops[1] = Call("arg", "", <<"a">>)
    /\ ops[2] = Call("wrapped", "", Some("sccache"))
    /\ program = "sccache"
    /\ args = <<"rustc", "a">>

\* The error the entry point returned, once it has returned one.
Failed == Done /\ IsSome(outcome) /\ ~Unwrap(outcome).ok
Failure == Unwrap(outcome)

\* The entry point returned because starting, reading or waiting failed.
IoFailed == Failed /\ (status = None \/ ~Unwrap(status).ok)

\* C12: a failure of starting, reading or waiting carries no Output in any
\* mode; a non-zero exit is reported by exec with the exit status and no
\* Output, by exec_with_output with the whole Output, and a failure of
\* exec_with_streaming (of a callback, or a non-zero exit) carries the
\* Output exactly when capture_output is set.
C12_OutputAttachment ==
    /\ IoFailed => Failure.output = None
    /\ (Failed /\ ~IoFailed /\ mode \in {"exec", "exec_replace"}) =>
          /\ Failure.desc = "process didn't exit successfully"
          /\ Failure.status = exit_code
          /\ ~success(Unwrap(exit_code))
          /\ Failure.output = None
    /\ (Failed /\ ~IoFailed /\ mode = "exec_with_output") =>
          /\ Failure.desc = "process didn't exit successfully"
          /\ Failure.status = exit_code
          /\ ~success(Unwrap(exit_code))
          /\ Failure.output
                = Some(Output(src_out, src_err, Unwrap(exit_code)))
    /\ (Failed /\ ~IoFailed /\ mode = "exec_with_streaming") =>
          /\ Failure.desc \in {"failed to parse process output",
                               "process didn't exit successfully"}
          /\ Failure.status = exit_code
          /\ Failure.output
                = IF capture_output
                  THEN Some(Output(stdout, stderr, Unwrap(exit_code)))
                  ELSE None

\* exec_with_output of a child that wrote to both streams and exited with
\* a non-zero code: the failure carries what it wrote.
C12_Witness ==
    /\ Failed /\ ~IoFailed
    /\ mode = "exec_with_output"
    /\ src_out # <<>> /\ src_err # <<>>
    /\ Failure.output = Some(Output(src_out, src_err, 7))

\* The child has been started.
Started == child # "none"

\* C13: exec_replace on unix returns only an error, and after the process
\* image is replaced nothing is returned; on windows the child is started
\* only once the Ctrl-C handler is installed, a failure to install it is
\* returned without the child being started, and otherwise the result is
\* that of exec: Ok(()) for a zero exit, the exit status without Output for
\* a non-zero one, "could not execute process" when status() fails.
C13_ExecReplace ==
    mode = "exec_replace" =>
      /\ (platform = "unix" /\ Done) => Failed
      /\ pc = "replaced" => outcome = None
      /\ platform = "windows" =>
          /\ Started => handler
          /\ (Done /\ ~handler) =>
                /\ Failed
                /\ Failure.desc = "Could not set Ctrl-C handler."
                /\ ~Started
          /\ (Done /\ handler) =>
                /\ IsSome(status)
                /\ IF ~Unwrap(status).ok
                   THEN /\ Failed
                        /\ Failure.desc = "could not execute process"
                        /\ Failure.output = None
                   ELSE IF success(Unwrap(exit_code))
                   THEN outcome = Some(Ok(Unit))
                   ELSE /\ Failed
                        /\ Failure.desc = "process didn't exit successfully"
                        /\ Failure.status = exit_code
                        /\ Failure.output = None

\* exec_replace on windows: the handler is installed, the child ran and
\* exited with a non-zero code, which is returned.
C13_Witness ==
    /\ mode = "exec_replace" /\ platform = "windows"
    /\ handler /\ child = "reaped"
    /\ Failed /\ Failure.status = Some(7)

\* The environment assignments in the rendering, in the order written.
ShownEnv ==
    SelectSeq(Display, LAMBDA p : p.fmt \in {"{}={} ", "set {}={}&& "})

\* The variables whose last write is a call of env, in key order.
SetKeys ==
    SelectSeq(KeyOrder, LAMBDA k : IsSome(LastWritten(k)) /\ EnvWrites(k) # <<>>)

\* C14: the rendering shows environment assignments only when the display
\* flag is set, and then one for each variable the overlay sets, in key
\* order, before the program; variables the overlay unsets and variables of
\* the calling process's environment are not shown.
C14_DisplayShowsSetEntries ==
    /\ ~display_env_vars => ShownEnv = <<>>
    /\ display_env_vars =>
          /\ Len(ShownEnv) = Len(SetKeys)
          /\ \A i \in 1..Len(SetKeys) :
                /\ ShownEnv[i].a = SetKeys[i]
                /\ ShownEnv[i].b = Unwrap(LastWritten(SetKeys[i]))
    /\ \A i \in 1..Len(ShownEnv) : Display[i + 1] = ShownEnv[i]
    /\ Display[Len(ShownEnv) + 2] = Piece("{}", program, "")

\* X is set, CARGO_MAKEFLAGS is unset by the overlay while the calling
\* process has both, and the display flag is set: X alone is shown.
C14_Witness ==
    /\ display_env_vars
    /\ \A k \in EnvKeys : IsSome(ambient[k])
    /\ "CARGO_MAKEFLAGS" \in DOMAIN env /\ env["CARGO_MAKEFLAGS"] = None
    /\ Len(ShownEnv) = 1
    /\ ShownEnv[1].a = "X" /\ ShownEnv[1].b = "1"

\* No byte of buf is the line terminator.
NoLF(buf) == \A i \in 1..Len(buf) : buf[i] # LF

\* The step is a call of the closure on stream is_out without end of
\* stream: read2b has moved what the pipe held to the pending buffer.
IsChunkCall(is_out) ==
    /\ pc = "reading" /\ pc' = "reading"
    /\ IF is_out
       THEN pipe_out # <<>> /\ pipe_out' = <<>> /\ ~eof_out /\ ~eof_out'
       ELSE pipe_err # <<>> /\ pipe_err' = <<>> /\ ~eof_err /\ ~eof_err'

\* C15: a call of the closure without end of stream on a pending buffer
\* that holds no line terminator consumes nothing: the pending buffer, both
\* capture buffers and the recorded callback error stay as they are and no
\* callback is invoked.
C15_NoTerminatorNoEffect ==
    [][\A is_out \in BOOLEAN :
          LET buf == IF is_out THEN data_out \o pipe_out
                     ELSE data_err \o pipe_err
          IN  (IsChunkCall(is_out) /\ NoLF(buf)) =>
                /\ (IF is_out THEN data_out' ELSE data_err') = buf
                /\ UNCHANGED <<stdout, stderr, callback_error, calls>>]_vars

\* stdout's pending buffer holds bytes without a terminator after a call
\* of the closure, and nothing was delivered or captured.
C15_Witness ==
    /\ pc = "reading" /\ ~eof_out
    /\ data_out # <<>> /\ NoLF(data_out)
    /\ pipe_out = <<>>
    /\ calls = <<>> /\ stdout = <<>> /\ stderr = <<>>
    /\ callback_error = None

\* The bytes read2b has taken from the pipe of stream is_out so far.
Received(is_out) ==
    IF is_out THEN SubSeq(src_out, 1, w_out - Len(pipe_out))
    ELSE SubSeq(src_err, 1, w_err - Len(pipe_err))

\* The bytes of buf after its last line terminator.
RECURSIVE AfterLastLF(_)
AfterLastLF(buf) ==
    IF buf = <<>> \/ buf[Len(buf)] = LF THEN <<>>
    ELSE Append(AfterLastLF(SubSeq(buf, 1, Len(buf) - 1)), buf[Len(buf)])

\* C16: in both capture modes and whatever the callbacks returned, after
\* every call of the closure the stream's pending buffer holds no line
\* terminator: it is the bytes received after the last terminator, and it is
\* empty after the call with end of stream.
C16_PendingIsTail ==
    /\ NoLF(data_out) /\ NoLF(data_err)
    /\ data_out = IF eof_out THEN <<>> ELSE AfterLastLF(Received(TRUE))
    /\ data_err = IF eof_err THEN <<>> ELSE AfterLastLF(Received(FALSE))

\* Without capture and after a callback failed, stdout's pending buffer
\* holds the byte received after a terminator, and the line before it is
\* gone from the buffer.
C16_Witness ==
    /\ ~capture_output /\ IsSome(callback_error)
    /\ ~eof_out
    /\ Len(data_out) = 1
    /\ Len(Received(TRUE)) = 2
    /\ Received(TRUE)[1] = LF

\* C17: with capture_output, once the end of both streams was handled the
\* capture buffers are what the child wrote to stdout and to stderr, byte
\* for byte, and the Output composed from them says the same, also when a
\* callback failed part-way.
C17_CaptureIsComplete ==
    capture_output =>
      /\ (eof_out /\ eof_err) => stdout = src_out /\ stderr = src_err
      /\ (Done /\ ReadOk) =>
            LET r == Unwrap(outcome)
                o == IF r.ok THEN Unwrap(r.value) ELSE Unwrap(r.output)
            IN  o.stdout = src_out /\ o.stderr = src_err

\* The callback failed on the first of three lines; the Output attached to
\* the failure holds both lines of stdout and the line of stderr.
C17_Witness ==
    /\ capture_output /\ Done /\ ReadOk
    /\ callback_error = Some(1) /\ Len(calls) = 1
    /\ src_out = <<LF, LF>> /\ src_err = <<"a">>
    /\ Unwrap(outcome).output
          = Some(Output(<<LF, LF>>, <<"a">>, Unwrap(exit_code)))

\* C18: absent a callback failure, once the end of both streams was
\* handled, the lines given to on_stdout_line are the lines of all the child
\* wrote to stdout, each once and in order, an unterminated end being the
\* last line, and likewise for on_stderr_line and stderr; no other callback
\* invocation was made, whatever the chunks and whatever capture_output.
C18_LinesOfWholeStream ==
    (eof_out /\ eof_err /\ callback_error = None) =>
      /\ Delivered(TRUE) = lines(from_utf8_lossy(src_out))
      /\ Delivered(FALSE) = lines(from_utf8_lossy(src_err))
      /\ Len(calls) = Len(Delivered(TRUE)) + Len(Delivered(FALSE))

\* stdout was a terminated line and an unterminated one: both were
\* delivered to on_stdout_line, in order, and nothing to on_stderr_line.
C18_Witness ==
    /\ Done /\ ReadOk /\ callback_error = None
    /\ src_out = <<"a", LF, "a">>
    /\ Delivered(TRUE) = << <<"a">>, <<"a">> >>
    /\ Delivered(FALSE) = <<>>

=============================================================================
